---- MODULE Spec2Model ----
(***************************************************************************)
(* A model of tbraid.py: the tablestack name stack, the matcher registry,  *)
(* the step processor, the scheduler (run, its workers and their           *)
(* semaphore) and the polling barrier (wait).                              *)
(*                                                                         *)
(* Python values are tagged records (None, int, str, callable, list,       *)
(* dict).  A thread is a stack of activation records, one per Python call  *)
(* in progress; a step of a thread is one access to shared state (the      *)
(* result table, a name-stack frame, a semaphore) together with the local  *)
(* computation around it.                                                  *)
(***************************************************************************)
EXTENDS Integers, Sequences, FiniteSets, TLC

VARIABLES
    scen,      \* the program under execution: the root script and its clock
    tables,    \* every dict ever bound to tbraid._ttable, by generation
    curtt,     \* the generation tbraid._ttable is bound to now
    heap,      \* the dict frames held by tablestacks, by frame id
    sems,      \* the threading.Semaphore of each run invocation
    threads,   \* main thread and workers: call stack, return value, exception
    matches,   \* tbraid._matches
    akeyid,    \* tbraid._akeyid
    raised,    \* exceptions that reached the caller of the root script
    probes,    \* what each probing host function saw in $result, per key
    stk,       \* tablestack specification: the tablestack objects
    last       \* tablestack / registry specification: outcome of the last operation

vars == <<scen, akeyid, tables, curtt, heap, sems, threads, matches, raised,
          probes, stk, last>>

----------------------------------------------------------------------------
(* Bounds of the model.                                                    *)

\* registry specification: register calls on top of the built-ins
MaxRegister == 2
\* tablestack specification: tablestack objects, frames, and writes
MaxStacks == 2
MaxFrames == 2
MaxWrites == 2
\* step processor: the $replace rewrites of one invocation are counted up to
\* this many
MaxCount == 4
\* the items of the $foreach that is run
MaxItems == 2

----------------------------------------------------------------------------
(* Python values.                                                          *)

PyNone == [t |-> "none"]
PyInt(n) == [t |-> "int", v |-> n]
\* a str, as the sequence of its pieces: "@", ",", " " and key names
PyStr(s) == [t |-> "str", s |-> s]
\* a callable, by name; Call below gives what each does
PyFn(f) == [t |-> "fn", f |-> f]
PyList(items) == [t |-> "list", items |-> items]
\* a dict, as its items in insertion order
PyDict(kv) == [t |-> "dict", kv |-> kv]
\* a list of str: the operand of $wait
PyKeys(ks) == [t |-> "keys", ks |-> ks]

\* bool(v), as `not not v` computes it
Truthy(v) ==
    CASE v.t = "none" -> FALSE
      [] v.t = "int" -> v.v # 0
      [] v.t = "str" -> v.s # <<>>
      [] v.t = "list" -> v.items # <<>>
      [] v.t = "dict" -> v.kv # <<>>
      [] v.t = "keys" -> v.ks # <<>>
      [] OTHER -> TRUE

DictKeys(d) == {d.kv[i][1] : i \in 1..Len(d.kv)}

\* d[k]: the dict literal's last item with key k
DictGet(d, k) ==
    LET I == {i \in 1..Len(d.kv) : d.kv[i][1] = k}
    IN d.kv[CHOOSE i \in I : \A j \in I : j <= i][2]

\* del d[k]
DictDel(d, k) == PyDict(SelectSeq(d.kv, LAMBDA p : p[1] # k))

\* d[k] = v: in place when d has k, else at the end
DictSet(d, k, v) ==
    IF k \in DictKeys(d)
    THEN PyDict([i \in 1..Len(d.kv) |->
                    IF d.kv[i][1] = k THEN <<k, v>> ELSE d.kv[i]])
    ELSE PyDict(Append(d.kv, <<k, v>>))

\* hasattr(d,'keys') and k in d
DHas(d, k) == d.t = "dict" /\ k \in DictKeys(d)

\* keys whose first character is '$'
DollarKeys ==
    {"$throttle", "$async", "$replace", "$param", "$sub", "$result",
     "$wait", "$run", "$foreach", "$llm"}

IsDollar(k) == k \in DollarKeys

\* the dict as a mapping, for use as a name-stack frame
DictFrame(d) == [k \in DictKeys(d) |-> DictGet(d, k)]

EmptyFrame == [k \in {} |-> PyNone]

----------------------------------------------------------------------------
(* str operations used by the literal handler.                             *)

RECURSIVE LStrip(_)
LStrip(s) == IF s # <<>> /\ Head(s) = " " THEN LStrip(Tail(s)) ELSE s

RECURSIVE RStrip(_)
RStrip(s) ==
    IF s # <<>> /\ s[Len(s)] = " " THEN RStrip(SubSeq(s, 1, Len(s) - 1)) ELSE s

Strip(s) == RStrip(LStrip(s))

\* s.split(','): cur is the token being read, out the tokens read
RECURSIVE SplitFrom(_, _, _)
SplitFrom(s, cur, out) ==
    IF s = <<>> THEN Append(out, cur)
    ELSE IF Head(s) = "," THEN SplitFrom(Tail(s), "", Append(out, cur))
    ELSE SplitFrom(Tail(s), cur \o Head(s), out)

Split(s) == SplitFrom(s, "", <<>>)

----------------------------------------------------------------------------
(* tablestack.  A tablestack is the list of the ids of its frames, bottom  *)
(* first; H maps a frame id to the mapping the frame holds.                *)

Ok(v) == [ok |-> TRUE, v |-> v]
Exc(e) == [ok |-> FALSE, exc |-> e]

\* tablestack.add
TsAdd(s, fid) == Append(s, fid)

\* tablestack.clone: a new list of the same frames
TsClone(s) == s

\* tablestack.top
TsTop(s) == s[Len(s)]

\* tablestack.__getitem__: from the top of the stack to the bottom
RECURSIVE TsGetFrom(_, _, _, _)
TsGetFrom(H, s, k, i) ==
    IF i < 1 THEN Exc("KeyError")
    ELSE IF k \in DOMAIN H[s[i]] THEN Ok(H[s[i]][k])
    ELSE TsGetFrom(H, s, k, i - 1)

\* a lookup that walks from the bottom of the stack to the top: what
\* __getitem__ would be without reversed()
RECURSIVE TsGetUp(_, _, _, _)
TsGetUp(H, s, k, i) ==
    IF i > Len(s) THEN Exc("KeyError")
    ELSE IF k \in DOMAIN H[s[i]] THEN Ok(H[s[i]][k])
    ELSE TsGetUp(H, s, k, i + 1)

TsGetBottomUp(H, s, k) == TsGetUp(H, s, k, 1)

TsGet(H, s, k) == TsGetFrom(H, s, k, Len(s))

\* tablestack.__contains__: not not self[k], False on KeyError
TsContains(H, s, k) ==
    LET r == TsGet(H, s, k) IN IF r.ok THEN Truthy(r.v) ELSE FALSE

\* tablestack.__setitem__: self._stack[-1][k] = v
TsSet(H, s, k, v) ==
    [H EXCEPT ![TsTop(s)] =
        [j \in DOMAIN @ \cup {k} |-> IF j = k THEN v ELSE @[j]]]

----------------------------------------------------------------------------
(* The matcher registry.                                                   *)

\* the check lambdas of the registry, by name
Check(c, a) ==
    CASE c = "true" -> TRUE
      [] c = "false" -> FALSE
      [] c = "is_dict" -> a.t = "dict"
      [] c = "is_list" -> a.t = "list"
      [] c = "has_wait" -> a.t = "dict" /\ "$wait" \in DictKeys(a)
      [] c = "has_run" -> a.t = "dict" /\ "$run" \in DictKeys(a)
      [] c = "has_foreach" -> a.t = "dict" /\ "$foreach" \in DictKeys(a)
      [] c = "has_llm" -> a.t = "dict" /\ "$llm" \in DictKeys(a)
      [] c = "is_int" -> a.t = "int"

\* tbraid.__init__: the registrations of the built-in handlers, in order
Builtins ==
    << [check |-> "true", func |-> "ignore"],
       [check |-> "true", func |-> "special_literals"],
       [check |-> "is_dict", func |-> "object"],
       [check |-> "is_list", func |-> "list"],
       [check |-> "has_wait", func |-> "wait"],
       [check |-> "has_run", func |-> "run"],
       [check |-> "has_foreach", func |-> "foreach"] >>

\* tbraid.register
Register(M, c, f) == Append(M, [check |-> c, func |-> f])

\* tbraid._find_matchfunc: latest entries take highest priority
RECURSIVE FindFrom(_, _, _)
FindFrom(M, a, i) ==
    IF i < 1 THEN Exc("NoMatchedFunctionError")
    ELSE IF Check(M[i].check, a) THEN Ok(M[i].func)
    ELSE FindFrom(M, a, i - 1)

\* a scan from the first registration to the last: what _find_matchfunc
\* would be without reversed()
RECURSIVE FindUp(_, _, _)
FindUp(M, a, i) ==
    IF i > Len(M) THEN Exc("NoMatchedFunctionError")
    ELSE IF Check(M[i].check, a) THEN Ok(M[i].func)
    ELSE FindUp(M, a, i + 1)

FindFirstRegistered(M, a) == FindUp(M, a, 1)

FindMatchfunc(M, a) == FindFrom(M, a, Len(M))

----------------------------------------------------------------------------
(* The braid: shared state as the threads see it.                          *)

\* tbraid.__contains__ and tbraid.__getitem__: the braid as a dict-like,
\* k in self._ttable and self._ttable[k]['value']
BraidView == [k \in DOMAIN tables[curtt] |-> tables[curtt][k].value]

\* every frame a tablestack can hold; tablestack(self) holds the braid itself
Frames ==
    [f \in DOMAIN heap \cup {"braid"} |->
        IF f = "braid" THEN BraidView ELSE heap[f]]

\* tbraid.reset: self._tstack = tablestack(self)
RootStack == <<"braid">>

\* the value run() and wait() return: the braid
Self == [t |-> "braid"]

\* the host functions the programs pass as $run, by name: f(a, ts)
Call(f, a, H, ts) ==
    LET res == TsGet(H, ts, "$result") IN
    CASE f = "ret7" -> Ok(PyInt(7))
      \* lambda _, t: t['n']
      [] f = "getn" -> TsGet(H, ts, "n")
      [] f = "slow" -> Ok(PyInt(42))
      [] f = "boom" -> Exc("RuntimeError")
      \* lambda _, t: t['$result'] * 2
      [] f = "double" ->
            IF ~res.ok THEN Exc("KeyError")
            ELSE IF res.v.t = "int" THEN Ok(PyInt(res.v.v * 2))
            ELSE Exc("TypeError")
      \* lambda _, t: (t['$result'] or 0) + 1
      [] f = "inc" ->
            IF ~res.ok THEN Exc("KeyError")
            ELSE IF res.v.t = "int" THEN Ok(PyInt(res.v.v + 1))
            ELSE IF ~Truthy(res.v) THEN Ok(PyInt(1))
            ELSE Exc("TypeError")

----------------------------------------------------------------------------
(* Threads.  A thread is [stk, ret, exc, nrun, nfr, st]: its activation    *)
(* records (innermost last), the value the last call returned, the         *)
(* exception in flight ("" when none), how many run invocations and frames *)
(* it has created (ids are made from these), and created / live / exit.    *)

NewThread(frames, st) ==
    [stk |-> frames, ret |-> PyNone, exc |-> "", nrun |-> 0, nfr |-> 0,
     st |-> st]

Top(th) == th.stk[Len(th.stk)]
Below(th) == th.stk[Len(th.stk) - 1]
Pop(q) == SubSeq(q, 1, Len(q) - 1)
SetTop(q, f) == [q EXCEPT ![Len(q)] = f]

Running(t) ==
    /\ t \in DOMAIN threads
    /\ threads[t].st = "live"
    /\ threads[t].stk # <<>>

\* the activation records where an exception in flight stops: the caller
\* of the script, tworker's `except Exception`, and the `finally` of
\* _handle_base_object while it is inside `try`
Catches(f) ==
    \/ f.k \in {"main", "tworker"}
    \/ f.k = "object" /\ f.pc = "run"

\* an unwinding that a chain handler stops as well
RECURSIVE UnwindChain(_)
UnwindChain(q) ==
    IF q = <<>> \/ Catches(q[Len(q)]) \/ q[Len(q)].k = "list" THEN q
    ELSE UnwindChain(Pop(q))

RECURSIVE Unwind(_)
Unwind(q) == IF q = <<>> \/ Catches(q[Len(q)]) THEN q ELSE Unwind(Pop(q))

Raise(th, e) == [th EXCEPT !.exc = e, !.ret = PyNone, !.stk = Unwind(@)]

Return(th, v) == [th EXCEPT !.ret = v, !.stk = Pop(@)]

----------------------------------------------------------------------------
(* tbraid.run and its workers.                                             *)

\* ob = ob or {}; a list becomes {'[:root:]': ob}
RunOb(ob) ==
    IF ~Truthy(ob) THEN PyDict(<<>>)
    ELSE IF ob.t = "list" THEN PyDict(<< <<"[:root:]", ob>> >>)
    ELSE ob

\* throt: the node's $throttle, else the constructor's
RunThrottle(ob) ==
    IF "$throttle" \in DictKeys(ob) THEN DictGet(ob, "$throttle").v
    ELSE scen.throttle

\* a loop of run that skips no key
SpawnedAll(ob) == ob.kv

\* the items the loop of run does not skip: k not in special, k[0] != '$'
Spawned(ob) == SelectSeq(ob.kv, LAMBDA p : ~IsDollar(p[1]))

\* the id of the run invocation thread t is about to make
RunId(t) == t \o "." \o ToString(threads[t].nrun + 1)

\* the activation record of run(ob, ts=ts) at the head of its loop
RunFrame(rid, ob, ts) ==
    [k |-> "run", items |-> Spawned(RunOb(ob)), ts |-> ts, tt |-> curtt,
     sem |-> rid, added |-> <<>>, pc |-> "check"]

\* sem = threading.Semaphore(throt)
NewSem(rid, ob) ==
    [r \in DOMAIN sems \cup {rid} |->
        IF r = rid THEN [cap |-> RunThrottle(RunOb(ob)), held |-> 0]
        ELSE sems[r]]

\* thread t calls run(ob, ts=ts)
CallRun(t, th, ob, ts) ==
    [th EXCEPT !.nrun = @ + 1,
               !.stk = Append(@, RunFrame(RunId(t), ob, ts))]

\* if k in tt
KeyPresent(tb, k) == k \in DOMAIN tb

\* the activation record of _process_step(a, tstack, key) at `while`
StepFrame(a, tstack, key) ==
    [k |-> "step", a |-> a, tstack |-> tstack, key |-> key, pc |-> "loop",
     hasval |-> FALSE, val |-> PyNone, n |-> 0]

\* run: `if k in tt: raise KeyOverrideAttemptError(k)`
RunCheck(t) ==
    /\ Running(t) /\ threads[t].exc = ""
    /\ LET th == threads[t]
           fr == Top(th)
       IN /\ fr.k = "run" /\ fr.pc = "check" /\ fr.items # <<>>
          /\ threads' =
                [threads EXCEPT ![t] =
                    IF KeyPresent(tables[fr.tt], fr.items[1][1])
                    THEN Raise(th, "KeyOverrideAttemptError")
                    ELSE [th EXCEPT !.stk = SetTop(@, [fr EXCEPT !.pc = "insert"])]]
    /\ UNCHANGED <<scen, akeyid, tables, curtt, heap, sems, matches, raised, probes,
                   stk, last>>

\* run: t = threading.Thread(target=tworker, args=(v,ts,k)); tt[k] = {...}
RunInsert(t) ==
    /\ Running(t) /\ threads[t].exc = ""
    /\ LET th == threads[t]
           fr == Top(th)
           k == fr.items[1][1]
           wid == fr.sem \o ":" \o k
           w == [k |-> "tworker", a |-> fr.items[1][2], ts |-> fr.ts,
                 key |-> k, tt |-> fr.tt, sem |-> fr.sem, pc |-> "acquire"]
           e == [state |-> "not-started", value |-> PyNone, thread |-> wid]
           fr2 == [fr EXCEPT !.items = Tail(@), !.added = Append(@, k),
                             !.pc = "check"]
       IN /\ fr.k = "run" /\ fr.pc = "insert"
          /\ threads' =
                [x \in DOMAIN threads \cup {wid} |->
                    IF x = wid THEN NewThread(<<w>>, "created")
                    ELSE IF x = t THEN [th EXCEPT !.stk = SetTop(@, fr2)]
                    ELSE threads[x]]
          /\ tables' =
                [tables EXCEPT ![fr.tt] =
                    [j \in DOMAIN @ \cup {k} |-> IF j = k THEN e ELSE @[j]]]
    /\ UNCHANGED <<scen, akeyid, curtt, heap, sems, matches, raised, probes, stk, last>>

\* for k in added: tt[k]['thread'].start(); Thread.start raises
\* RuntimeError on a thread that was started before
RECURSIVE StartAll(_, _, _)
StartAll(T, tb, ks) ==
    IF ks = <<>> THEN [T |-> T, ok |-> TRUE]
    ELSE LET w == tb[Head(ks)].thread IN
         IF T[w].st # "created" THEN [T |-> T, ok |-> FALSE]
         ELSE StartAll([T EXCEPT ![w].st = "live"], tb, Tail(ks))

\* run: start all threads after tt's been assigned its objects; return self
RunStart(t) ==
    /\ Running(t) /\ threads[t].exc = ""
    /\ LET th == threads[t]
           fr == Top(th)
           r == StartAll(threads, tables[fr.tt], fr.added)
       IN /\ fr.k = "run" /\ fr.pc = "check" /\ fr.items = <<>>
          /\ threads' =
                [r.T EXCEPT ![t] =
                    IF r.ok THEN Return(th, Self) ELSE Raise(th, "RuntimeError")]
    /\ UNCHANGED <<scen, akeyid, tables, curtt, heap, sems, matches, raised, probes,
                   stk, last>>

\* a semaphore that never blocks
SemNoLimit(sm) == TRUE

\* `with sem:` can be entered
SemFree(sm) == sm.held < sm.cap

\* tworker: `with sem:`, then the call of _process_step(a, tstack, key)
WorkerAcquire(t) ==
    /\ Running(t)
    /\ LET th == threads[t]
           fr == Top(th)
       IN /\ fr.k = "tworker" /\ fr.pc = "acquire"
          /\ SemFree(sems[fr.sem])
          /\ sems' = [sems EXCEPT ![fr.sem].held = @ + 1]
          /\ threads' =
                [threads EXCEPT ![t].stk =
                    Append(SetTop(@, [fr EXCEPT !.pc = "call"]),
                           StepFrame(fr.a, fr.ts, fr.key))]
    /\ UNCHANGED <<scen, akeyid, tables, curtt, heap, matches, raised, probes, stk,
                   last>>

\* tworker: tt[key]['value'] = val
WorkerSetValue(t) ==
    /\ Running(t) /\ threads[t].exc = ""
    /\ LET th == threads[t]
           fr == Top(th)
       IN /\ fr.k = "tworker" /\ fr.pc = "call"
          /\ tables' = [tables EXCEPT ![fr.tt][fr.key].value = th.ret]
          /\ threads' =
                [threads EXCEPT ![t].stk = SetTop(@, [fr EXCEPT !.pc = "state"])]
    /\ UNCHANGED <<scen, akeyid, curtt, heap, sems, matches, raised, probes, stk, last>>

\* the thread of a worker ends: the semaphore is released
WorkerExit(th) == [th EXCEPT !.stk = <<>>, !.st = "exit", !.exc = ""]

\* tworker: tt[key]['state'] = 'done', and the end of `with sem`
WorkerSetDone(t) ==
    /\ Running(t) /\ threads[t].exc = ""
    /\ LET th == threads[t]
           fr == Top(th)
       IN /\ fr.k = "tworker" /\ fr.pc = "state"
          /\ tables' = [tables EXCEPT ![fr.tt][fr.key].state = "done"]
          /\ sems' = [sems EXCEPT ![fr.sem].held = @ - 1]
          /\ threads' = [threads EXCEPT ![t] = WorkerExit(th)]
    /\ UNCHANGED <<scen, akeyid, curtt, heap, matches, raised, probes, stk, last>>

\* tworker: except Exception: tt[key]['state'] = 'error'
WorkerError(t) ==
    /\ Running(t) /\ threads[t].exc # ""
    /\ LET th == threads[t]
           fr == Top(th)
       IN /\ fr.k = "tworker"
          /\ tables' = [tables EXCEPT ![fr.tt][fr.key].state = "error"]
          /\ sems' = [sems EXCEPT ![fr.sem].held = @ - 1]
          /\ threads' = [threads EXCEPT ![t] = WorkerExit(th)]
    /\ UNCHANGED <<scen, akeyid, curtt, heap, matches, raised, probes, stk, last>>

----------------------------------------------------------------------------
(* tbraid.wait.                                                            *)

\* the activation record of wait(*r) at the head of its loop
WaitFrame(r) == [k |-> "wait", r |-> r, kr |-> {}, pc |-> "loop"]

ElemsOf(q) == {q[i] : i \in 1..Len(q)}

\* a wait that returns at its first reading whatever the states are
WaitNoBarrier(tb, kr) == TRUE

\* len([k for k in kr if self._ttable[k]['state'] in ('done','error')])
\*   == len(kr)
WaitDone(tb, kr) == \A k \in kr : tb[k].state \in {"done", "error"}

\* wait(): kr = list(self._ttable.keys()), when no key was given
WaitSnapshot(t) ==
    /\ Running(t) /\ threads[t].exc = ""
    /\ LET th == threads[t]
           fr == Top(th)
       IN /\ fr.k = "wait" /\ fr.pc = "loop" /\ fr.r = <<>>
          /\ threads' =
                [threads EXCEPT ![t].stk =
                    SetTop(@, [fr EXCEPT !.kr = DOMAIN tables[curtt],
                                         !.pc = "check"])]
    /\ UNCHANGED <<scen, akeyid, tables, curtt, heap, sems, matches, raised, probes,
                   stk, last>>

\* wait: the reading of the states; then `return self` is reached, or
\* time.sleep, or self._ttable[k] raises KeyError
WaitCheck(t) ==
    /\ Running(t) /\ threads[t].exc = ""
    /\ LET th == threads[t]
           fr == Top(th)
           kr == IF fr.r # <<>> THEN ElemsOf(fr.r) ELSE fr.kr
           tb == tables[curtt]
       IN /\ fr.k = "wait"
          /\ \/ fr.pc = "check"
             \/ fr.pc = "loop" /\ fr.r # <<>>
          /\ threads' =
                [threads EXCEPT ![t] =
                    IF \E k \in kr : k \notin DOMAIN tb THEN Raise(th, "KeyError")
                    ELSE IF WaitDone(tb, kr)
                    THEN [th EXCEPT !.stk = SetTop(@, [fr EXCEPT !.kr = kr,
                                                               !.pc = "ret"])]
                    ELSE [th EXCEPT !.stk = SetTop(@, [fr EXCEPT !.kr = {},
                                                               !.pc = "loop"])]]
    /\ UNCHANGED <<scen, akeyid, tables, curtt, heap, sems, matches, raised, probes,
                   stk, last>>

\* a timeout that makes wait return instead of raising
TimedOutSilently(th) == Return(th, Self)

\* what the timeout of a wait does to the thread that waits
TimedOut(th) == Raise(th, "WaitTimeoutError")

\* wait: time.time() >= start + self._timeout at the head of the loop
WaitTimeout(t) ==
    /\ Running(t) /\ threads[t].exc = ""
    /\ scen.clock = "short"
    /\ LET th == threads[t]
           fr == Top(th)
       IN /\ fr.k = "wait" /\ fr.pc = "loop"
          /\ threads' = [threads EXCEPT ![t] = TimedOut(th)]
    /\ UNCHANGED <<scen, akeyid, tables, curtt, heap, sems, matches, raised, probes,
                   stk, last>>

\* thread t is at `return self` of wait, under a caller of kind c
Returned(t, c) ==
    /\ Running(t) /\ threads[t].exc = ""
    /\ Len(threads[t].stk) >= 2
    /\ Top(threads[t]).k = "wait" /\ Top(threads[t]).pc = "ret"
    /\ Below(threads[t]).k = c

----------------------------------------------------------------------------
(* tbraid._process_step and the handlers.                                  *)

Fid(t, n) == t \o "#" \o ToString(n)

\* heap with one more frame
Alloc(H, fid, frame) ==
    [f \in DOMAIN H \cup {fid} |-> IF f = fid THEN frame ELSE H[f]]

\* the frame tablestack.add(a['$param']) puts on the stack
ParamFrame(p) == IF p.t = "dict" THEN DictFrame(p) ELSE EmptyFrame

\* _process_step: ts = tstack.clone().add(a['$param']) if _dhas(a,'$param')
StepTs(t, fr) ==
    IF DHas(fr.a, "$param")
    THEN TsAdd(TsClone(fr.tstack), Fid(t, threads[t].nfr + 1))
    ELSE fr.tstack

StepHeap(t, fr) ==
    IF DHas(fr.a, "$param")
    THEN Alloc(heap, Fid(t, threads[t].nfr + 1),
               ParamFrame(DictGet(fr.a, "$param")))
    ELSE heap

StepThread(t, fr) ==
    IF DHas(fr.a, "$param") THEN [threads[t] EXCEPT !.nfr = @ + 1]
    ELSE threads[t]

\* _process_step: with $sub, b[f'{key}:{k}'] = b[k]; del b[k] for the keys
\* that do not start with '$'
SubRename(a, key) ==
    LET dollar == SelectSeq(a.kv, LAMBDA p : IsDollar(p[1]))
        plain == SelectSeq(a.kv, LAMBDA p : ~IsDollar(p[1]))
    IN PyDict(dollar \o
              [i \in 1..Len(plain) |->
                  <<key \o ":" \o plain[i][1], plain[i][2]>>])

StepNode(fr) == IF DHas(fr.a, "$sub") THEN SubRename(fr.a, fr.key) ELSE fr.a

StepFunc(fr) == FindMatchfunc(matches, StepNode(fr))

Replace(node) == PyDict(<< <<"$replace", node>> >>)

\* a literal handler that rewrites every node to itself
SpecialLiteralsSame(a) == Replace(a)

\* _handle_base_special_literals
SpecialLiterals(a) ==
    IF a.t = "str" /\ Len(a.s) > 0 /\ a.s[1] = "@"
    THEN Replace(PyDict(<< <<"$wait", PyKeys(Split(Tail(Strip(a.s))))>> >>))
    ELSE IF a.t = "fn" THEN Replace(PyDict(<< <<"$run", a>> >>))
    ELSE a

\* _handle_base_run: f = a['$run']; return f(a,ts)
HandleRun(a, H, ts) ==
    LET f == DictGet(a, "$run") IN
    IF f.t = "fn" THEN Call(f.f, a, H, ts) ELSE Exc("TypeError")

\* _autokey: self._akeyid += 1; f'{"".join(r)}_{self._akeyid}'
Autokey(prefix, id) == prefix \o "_" \o ToString(id + 1)

\* len(str(n))
RECURSIVE Digits(_)
Digits(n) == IF n < 10 THEN 1 ELSE 1 + Digits(n \div 10)

\* '%0{w}i' % (i,)
RECURSIVE ZeroPad(_, _)
ZeroPad(i, w) == IF w <= Digits(i) THEN ToString(i) ELSE "0" \o ZeroPad(i, w - 1)

\* a clone that is not given its item
ForeachCloneNoParam(a, top, item) == DictDel(a, "$foreach")

\* _handle_base_foreach: the clone of a for one item; top is ts.top()
ForeachClone(a, top, item) ==
    LET b1 == IF "$throttle" \in DictKeys(a) THEN DictDel(a, "$throttle") ELSE a
        b2 == IF "$throttle" \in DOMAIN top
              THEN DictSet(b1, "$throttle", top["$throttle"]) ELSE b1
    IN DictDel(DictSet(b2, "$param", item), "$foreach")

\* _handle_base_foreach, for a $foreach that is a list (the programs below
\* pass no other iterable; list() of a value that is not iterable raises)
HandleForeach(a, H, ts) ==
    LET it == DictGet(a, "$foreach")
        akey == Autokey("foreach:", akeyid)
        throt == IF "$throttle" \in DictKeys(a) THEN DictGet(a, "$throttle")
                 ELSE PyInt(scen.throttle)
        kilen == Digits(Len(it.items))
        ret == PyDict(<< <<"$throttle", throt>>, <<"$sub", PyInt(1)>> >> \o
                      [i \in 1..Len(it.items) |->
                          <<akey \o ":" \o ZeroPad(i - 1, kilen),
                            ForeachClone(a, H[TsTop(ts)], it.items[i])>>])
    IN IF it.t # "list" THEN Exc("TypeError") ELSE Ok(Replace(ret))

\* the handlers that return without calling run, wait or _process_step;
\* "again" is a registered handler that answers {'$replace': a}
HandlerValue(f, a, H, ts) ==
    CASE f = "ignore" -> Ok(a)
      [] f = "special_literals" -> Ok(SpecialLiterals(a))
      [] f = "run" -> HandleRun(a, H, ts)
      [] f = "foreach" -> HandleForeach(a, H, ts)
      [] f = "again" -> Ok(Replace(a))

\* _process_step: `if _dhas(val,'$replace'): a = val['$replace']`, else
\* break and return val; th is the thread with the step on top, whose n
\* counts the rewrites of this invocation
StepPost(th, val) ==
    IF DHas(val, "$replace")
    THEN [th EXCEPT !.ret = PyNone,
                    !.stk = SetTop(@, [Top(th) EXCEPT
                                !.a = DictGet(val, "$replace"),
                                !.hasval = TRUE, !.val = val, !.pc = "loop",
                                !.n = IF @ < MaxCount THEN @ + 1 ELSE @])]
    ELSE Return(th, val)

AtStep(t, pc) ==
    /\ Running(t) /\ threads[t].exc = ""
    /\ Top(threads[t]).k = "step" /\ Top(threads[t]).pc = pc

\* _process_step: `while not (a is None)` fails; `return val`
StepNone(t) ==
    /\ AtStep(t, "loop")
    /\ LET th == threads[t]
           fr == Top(th)
       IN /\ fr.a = PyNone
          /\ threads' =
                [threads EXCEPT ![t] =
                    IF fr.hasval THEN Return(th, fr.val)
                    ELSE Raise(th, "UnboundLocalError")]
    /\ UNCHANGED <<scen, akeyid, tables, curtt, heap, sems, matches, raised, probes,
                   stk, last>>

\* the handlers that return at once
Immediate == {"ignore", "special_literals", "run", "foreach", "again"}

\* _process_step: one turn of the loop through _find_matchfunc and a
\* handler that returns at once, or the NoMatchedFunctionError of
\* _find_matchfunc
StepImmediate(t) ==
    /\ AtStep(t, "loop")
    /\ LET fr == Top(threads[t])
           th == StepThread(t, fr)
           m == StepFunc(fr)
           H == [f \in DOMAIN StepHeap(t, fr) \cup {"braid"} |->
                    IF f = "braid" THEN BraidView ELSE StepHeap(t, fr)[f]]
           r == HandlerValue(m.v, StepNode(fr), H, StepTs(t, fr))
           seen == TsGet(H, StepTs(t, fr), "$result")
       IN /\ fr.a # PyNone
          /\ ~m.ok \/ m.v \in Immediate
          /\ threads' =
                [threads EXCEPT ![t] =
                    IF ~m.ok THEN Raise(th, m.exc)
                    ELSE IF r.ok THEN StepPost(th, r.v)
                    ELSE Raise(th, r.exc)]
          /\ heap' = StepHeap(t, fr)
          /\ probes' =
                IF m.ok /\ m.v = "run"
                THEN [k \in DOMAIN probes \cup {fr.key} |->
                        IF k = fr.key
                        THEN Append(IF k \in DOMAIN probes THEN probes[k]
                                    ELSE <<>>, seen)
                        ELSE probes[k]]
                ELSE probes
          /\ akeyid' = IF m.ok /\ m.v = "foreach" /\ r.ok THEN akeyid + 1
                        ELSE akeyid
    /\ UNCHANGED <<scen, tables, curtt, sems, matches, raised, stk, last>>

\* _process_step: the handler returned
StepReturn(t) ==
    /\ AtStep(t, "called")
    /\ threads' = [threads EXCEPT ![t] = StepPost(threads[t], threads[t].ret)]
    /\ UNCHANGED <<scen, akeyid, tables, curtt, heap, sems, matches, raised, probes,
                   stk, last>>

\* _handle_base_object: asy = '$async' in b and (not not b['$async'])
Async(b) == DHas(b, "$async") /\ Truthy(DictGet(b, "$async"))

\* _handle_base_object: kr = [k for k in b.keys() if k[0] != '$']
ObjectKeys(b) ==
    LET plain == SelectSeq(b.kv, LAMBDA p : ~IsDollar(p[1]))
    IN [i \in 1..Len(plain) |-> plain[i][1]]

\* _handle_base_object up to the call self.run(ob=b,ts=t2)
StepObject(t) ==
    /\ AtStep(t, "loop")
    /\ LET fr == Top(threads[t])
           th == StepThread(t, fr)
           m == StepFunc(fr)
           b == StepNode(fr)
           fid == Fid(t, th.nfr + 1)
           t2 == TsAdd(TsClone(StepTs(t, fr)), fid)
           o == [k |-> "object", t2 |-> t2, asy |-> Async(b),
                 kr |-> ObjectKeys(b), pc |-> "run", pend |-> ""]
           th2 == [th EXCEPT !.nfr = @ + 1,
                             !.stk = Append(SetTop(@, [fr EXCEPT !.pc = "called"]), o)]
       IN /\ fr.a # PyNone
          /\ m.ok /\ m.v = "object"
          /\ threads' = [threads EXCEPT ![t] = CallRun(t, th2, b, t2)]
          /\ heap' = Alloc(StepHeap(t, fr), fid, EmptyFrame)
          /\ sems' = NewSem(RunId(t), b)
    /\ UNCHANGED <<scen, akeyid, tables, curtt, matches, raised, probes, stk, last>>

\* _handle_base_object: return t2['$result'] if '$result' in t2 else None
\* (_handle_base_wait ends the same way, on ts)
ResultOf(H, ts) ==
    IF TsContains(H, ts, "$result") THEN TsGet(H, ts, "$result").v ELSE PyNone

\* _handle_base_object: run returned or raised; `finally: if not asy:
\* self.wait(*kr)`, with the exception of run kept for after the wait
ObjectFinally(t) ==
    /\ Running(t)
    /\ LET th == threads[t]
           fr == Top(th)
           out == [th EXCEPT !.stk = Pop(@)]
       IN /\ fr.k = "object" /\ fr.pc = "run"
          /\ threads' =
                [threads EXCEPT ![t] =
                    IF fr.asy
                    THEN IF th.exc # "" THEN Raise(out, th.exc)
                         ELSE Return(th, ResultOf(Frames, fr.t2))
                    ELSE [th EXCEPT
                            !.exc = "",
                            !.stk = Append(SetTop(@, [fr EXCEPT !.pc = "wait",
                                                                !.pend = th.exc]),
                                           WaitFrame(fr.kr))]]
    /\ UNCHANGED <<scen, akeyid, tables, curtt, heap, sems, matches, raised, probes,
                   stk, last>>

\* _handle_base_object: the wait of `finally` returned
ObjectReturn(t) ==
    /\ Returned(t, "object")
    /\ LET th == threads[t]
           fr == Below(th)
           out == [th EXCEPT !.stk = Pop(@)]
       IN threads' =
            [threads EXCEPT ![t] =
                IF fr.pend # "" THEN Raise([out EXCEPT !.stk = Pop(@)], fr.pend)
                ELSE Return(out, ResultOf(Frames, fr.t2))]
    /\ UNCHANGED <<scen, akeyid, tables, curtt, heap, sems, matches, raised, probes,
                   stk, last>>

\* _handle_base_list up to the first call of _process_step
StepList(t) ==
    /\ AtStep(t, "loop")
    /\ LET fr == Top(threads[t])
           th == StepThread(t, fr)
           m == StepFunc(fr)
           a == StepNode(fr)
           fid == Fid(t, th.nfr + 1)
           t2 == TsAdd(TsClone(StepTs(t, fr)), fid)
           l == [k |-> "list", items |-> a.items, t2 |-> t2, x |-> 1,
                 key |-> fr.key]
           th2 == [th EXCEPT !.nfr = @ + 1]
       IN /\ fr.a # PyNone
          /\ m.ok /\ m.v = "list"
          /\ heap' = Alloc(StepHeap(t, fr), fid, [k \in {"$result"} |-> PyNone])
          /\ threads' =
                [threads EXCEPT ![t] =
                    IF a.items = <<>> THEN StepPost(th2, PyNone)
                    ELSE [th2 EXCEPT !.stk =
                            SetTop(@, [fr EXCEPT !.pc = "called"])
                            \o <<l, StepFrame(a.items[1], t2, fr.key)>>]]
    /\ UNCHANGED <<scen, akeyid, tables, curtt, sems, matches, raised, probes, stk,
                   last>>

\* a chain that does not publish what its step returned
ListAssignNothing(H, t2, val) == H

\* _handle_base_list: t2['$result'] = <what the step returned>
ListAssign(H, t2, val) == TsSet(H, t2, "$result", val)

\* _handle_base_list: a step returned; the next step, or return t2['$result']
ListNext(t) ==
    /\ Running(t) /\ threads[t].exc = ""
    /\ LET th == threads[t]
           fr == Top(th)
           H == ListAssign(heap, fr.t2, th.ret)
       IN /\ fr.k = "list"
          /\ heap' = H
          /\ threads' =
                [threads EXCEPT ![t] =
                    IF fr.x < Len(fr.items)
                    THEN [th EXCEPT !.ret = PyNone, !.stk =
                            Append(SetTop(@, [fr EXCEPT !.x = @ + 1]),
                                   StepFrame(fr.items[fr.x + 1], fr.t2, fr.key))]
                    ELSE Return(th, TsGet(H, fr.t2, "$result").v)]
    /\ UNCHANGED <<scen, akeyid, tables, curtt, sems, matches, raised, probes, stk,
                   last>>

\* _handle_base_wait up to the call self.wait(*a['$wait'])
StepWait(t) ==
    /\ AtStep(t, "loop")
    /\ LET fr == Top(threads[t])
           th == StepThread(t, fr)
           m == StepFunc(fr)
           a == StepNode(fr)
           h == [k |-> "hwait", ts |-> StepTs(t, fr)]
       IN /\ fr.a # PyNone
          /\ m.ok /\ m.v = "wait"
          /\ heap' = StepHeap(t, fr)
          /\ threads' =
                [threads EXCEPT ![t] =
                    IF ~DHas(a, "$wait") \/ DictGet(a, "$wait").t # "keys"
                    THEN Raise(th, "AssertionError")
                    ELSE [th EXCEPT !.stk =
                            SetTop(@, [fr EXCEPT !.pc = "called"])
                            \o <<h, WaitFrame(DictGet(a, "$wait").ks)>>]]
    /\ UNCHANGED <<scen, akeyid, tables, curtt, sems, matches, raised, probes, stk,
                   last>>

\* _handle_base_wait: return ts['$result'] if '$result' in ts else None
HWaitResult(H, ts) == ResultOf(H, ts)

\* _handle_base_wait: self.wait returned
HWaitReturn(t) ==
    /\ Returned(t, "hwait")
    /\ LET th == threads[t]
           out == [th EXCEPT !.stk = Pop(@)]
       IN threads' =
            [threads EXCEPT ![t] =
                Return(out, HWaitResult(Frames, Below(th).ts))]
    /\ UNCHANGED <<scen, akeyid, tables, curtt, heap, sems, matches, raised, probes,
                   stk, last>>

----------------------------------------------------------------------------
(* The caller of the braid: a script of run and wait calls.                *)

AtMain(t) ==
    /\ t = "main" /\ Running(t) /\ threads[t].exc = ""
    /\ Top(threads[t]).k = "main"
    /\ Top(threads[t]).i <= Len(scen.script)

\* the caller calls tbraid.run(ob)
MainRun(t) ==
    /\ AtMain(t)
    /\ LET th == threads[t]
           fr == Top(th)
           c == scen.script[fr.i]
           th2 == [th EXCEPT !.stk = SetTop(@, [fr EXCEPT !.i = @ + 1])]
       IN /\ c.op = "run"
          /\ threads' = [threads EXCEPT ![t] = CallRun(t, th2, c.ob, RootStack)]
          /\ sems' = NewSem(RunId(t), c.ob)
    /\ UNCHANGED <<scen, akeyid, tables, curtt, heap, matches, raised, probes, stk,
                   last>>

\* the caller calls tbraid.wait(*r)
MainWait(t) ==
    /\ AtMain(t)
    /\ LET th == threads[t]
           fr == Top(th)
           c == scen.script[fr.i]
       IN /\ c.op = "wait"
          /\ threads' =
                [threads EXCEPT ![t].stk =
                    Append(SetTop(@, [fr EXCEPT !.i = @ + 1]), WaitFrame(c.r))]
    /\ UNCHANGED <<scen, akeyid, tables, curtt, heap, sems, matches, raised, probes,
                   stk, last>>

\* the caller calls tbraid.reset(): self._tstack = tablestack(self);
\* self._ttable = {}; the threads go on
MainReset(t) ==
    /\ AtMain(t)
    /\ LET th == threads[t]
           fr == Top(th)
           c == scen.script[fr.i]
       IN /\ c.op = "reset"
          /\ tables' = Append(tables, [k \in {} |-> PyNone])
          /\ curtt' = Len(tables) + 1
          /\ threads' =
                [threads EXCEPT ![t] =
                    [th EXCEPT !.ret = Self,
                               !.stk = SetTop(@, [fr EXCEPT !.i = @ + 1])]]
    /\ UNCHANGED <<scen, akeyid, heap, sems, matches, raised, probes, stk, last>>

\* wait returned to the caller
MainReturn(t) ==
    /\ Returned(t, "main")
    /\ threads' = [threads EXCEPT ![t] = Return(threads[t], Self)]
    /\ UNCHANGED <<scen, akeyid, tables, curtt, heap, sems, matches, raised, probes,
                   stk, last>>

\* run or wait raised to the caller, who goes on with the script
MainCaught(t) ==
    /\ t = "main" /\ Running(t) /\ threads[t].exc # ""
    /\ Top(threads[t]).k = "main"
    /\ raised' = Append(raised, [call |-> Top(threads[t]).i - 1,
                                  exc |-> threads[t].exc])
    /\ threads' = [threads EXCEPT ![t].exc = ""]
    /\ UNCHANGED <<scen, akeyid, tables, curtt, heap, sems, matches, probes, stk, last>>

----------------------------------------------------------------------------
(* The programs.                                                           *)

DoRun(ob) == [op |-> "run", ob |-> ob]
DoWait(r) == [op |-> "wait", r |-> r]
DoReset == [op |-> "reset"]
\* {'$run': f}
RunOf(f) == PyDict(<< <<"$run", PyFn(f)>> >>)
\* '@k'
At(k) == PyStr(<<"@", k>>)

\* tbraid.__init__: throttle=30
DefaultThrottle == 30

\* run({'seq':[1,2,3]}); wait('seq')
ScChain ==
    [name |-> "chain", throttle |-> DefaultThrottle, clock |-> "long", reg |-> <<>>,
     script |-> << DoRun(PyDict(<< <<"seq", PyList(<<PyInt(1), PyInt(2), PyInt(3)>>)>> >>)),
                   DoWait(<<"seq">>) >>]

\* a chain of host functions that read $result, the first given as a callable
ScChainFn ==
    [name |-> "chainfn", throttle |-> DefaultThrottle, clock |-> "long", reg |-> <<>>,
     script |-> << DoRun(PyDict(<< <<"seq", PyList(<<PyFn("inc"), RunOf("inc"),
                                                     RunOf("double")>>)>> >>)),
                   DoWait(<<"seq">>) >>]

\* run({'a':{'$run':f7}, 'b':['@a', {'$run': lambda _,t: t['$result']*2}]});
\* wait()
ScCross ==
    [name |-> "cross", throttle |-> DefaultThrottle, clock |-> "long", reg |-> <<>>,
     script |-> << DoRun(PyDict(<< <<"a", RunOf("ret7")>>,
                                   <<"b", PyList(<<At("a"), RunOf("double")>>)>> >>)),
                   DoWait(<<>>) >>]

\* two sibling branches that spawn the same key
ScRace ==
    [name |-> "race", throttle |-> DefaultThrottle, clock |-> "long", reg |-> <<>>,
     script |-> << DoRun(PyDict(<< <<"p", PyDict(<< <<"x", PyInt(1)>> >>)>>,
                                   <<"q", PyDict(<< <<"x", RunOf("boom")>> >>)>> >>)),
                   DoWait(<<>>) >>]

\* run({'a':1}); run({'a':2})
ScOverride ==
    [name |-> "override", throttle |-> DefaultThrottle, clock |-> "long", reg |-> <<>>,
     script |-> << DoRun(PyDict(<< <<"a", PyInt(1)>> >>)),
                   DoRun(PyDict(<< <<"a", PyInt(2)>> >>)) >>]

\* tbraid(timeout=0.05); run({'slow':{'$run':slow_fn}}); wait('slow')
ScTimeout ==
    [name |-> "timeout", throttle |-> DefaultThrottle, clock |-> "short", reg |-> <<>>,
     script |-> << DoRun(PyDict(<< <<"slow", RunOf("slow")>> >>)),
                   DoWait(<<"slow">>) >>]

\* a key whose host function raises and a key whose node is None, beside
\* siblings
ScFail ==
    [name |-> "fail", throttle |-> DefaultThrottle, clock |-> "long", reg |-> <<>>,
     script |-> << DoRun(PyDict(<< <<"k", RunOf("boom")>>,
                                   <<"n", PyNone>>,
                                   <<"s", RunOf("ret7")>>,
                                   <<"u", PyList(<<PyInt(5), PyFn("inc")>>)>> >>)),
                   DoWait(<<>>) >>]

\* tbraid(throttle=1); a root run with $throttle 2 and a nested branch
ScThrottle ==
    [name |-> "throttle", throttle |-> 1, clock |-> "long", reg |-> <<>>,
     script |-> << DoRun(PyDict(<< <<"$throttle", PyInt(2)>>,
                                   <<"u", PyDict(<< <<"x", PyFn("slow")>>,
                                                    <<"y", PyFn("slow")>> >>)>>,
                                   <<"v", RunOf("slow")>>,
                                   <<"w", PyInt(3)>> >>)),
                   DoWait(<<>>) >>]

\* a braid that is given nothing to run
ScIdle ==
    [name |-> "idle", throttle |-> DefaultThrottle, clock |-> "long", reg |-> <<>>,
     script |-> <<>>]

\* run({'all': {'$foreach': [{'n':'a'},{'n':'b'},...], '$sub': 1,
\*                'body': {'$run': lambda _, t: t['n']}}}); wait()
Letters == <<"a", "b", "c", "d", "e">>

ForeachItems ==
    [i \in 1..MaxItems |-> PyDict(<< <<"n", PyStr(<<Letters[i]>>)>> >>)]

ScForeach ==
    [name |-> "foreach", throttle |-> DefaultThrottle, clock |-> "long", reg |-> <<>>,
     script |-> << DoRun(PyDict(<< <<"all",
                        PyDict(<< <<"$foreach", PyList(ForeachItems)>>,
                                  <<"$sub", PyInt(1)>>,
                                  <<"body", RunOf("getn")>> >>)>> >>)),
                   DoWait(<<>>) >>]

\* a branch that does not wait for its child
ScAsync ==
    [name |-> "async", throttle |-> DefaultThrottle, clock |-> "long", reg |-> <<>>,
     script |-> << DoRun(PyDict(<< <<"p", PyDict(<< <<"$async", PyInt(1)>>,
                                                    <<"x", RunOf("slow")>> >>)>> >>)),
                   DoWait(<<>>) >>]

\* a chain step that waits for a key a sibling's branch spawns
ScEarly ==
    [name |-> "early", throttle |-> DefaultThrottle, clock |-> "long", reg |-> <<>>,
     script |-> << DoRun(PyDict(<< <<"p", PyDict(<< <<"x", PyInt(7)>> >>)>>,
                                   <<"q", At("x")>> >>)),
                   DoWait(<<>>) >>]

\* run({'z': 0, 'e': '', 'n': None}); wait()
ScScalars ==
    [name |-> "scalars", throttle |-> DefaultThrottle, clock |-> "long", reg |-> <<>>,
     script |-> << DoRun(PyDict(<< <<"z", PyInt(0)>>,
                                   <<"e", PyStr(<<>>)>>,
                                   <<"n", PyNone>> >>)),
                   DoWait(<<>>) >>]

\* tb.register(lambda a: type(a) is int, lambda s, a, ts, key: {'$replace': a});
\* run({'k': 5}); wait('k')
ScLoop ==
    [name |-> "loop", throttle |-> DefaultThrottle, clock |-> "short",
     reg |-> << [check |-> "is_int", func |-> "again"] >>,
     script |-> << DoRun(PyDict(<< <<"k", PyInt(5)>> >>)),
                   DoWait(<<"k">>) >>]

\* run({'a': 1}); run({'b': 2, 'a': 3}); wait()
ScPartial ==
    [name |-> "partial", throttle |-> DefaultThrottle, clock |-> "short", reg |-> <<>>,
     script |-> << DoRun(PyDict(<< <<"a", PyInt(1)>> >>)),
                   DoRun(PyDict(<< <<"b", PyInt(2)>>, <<"a", PyInt(3)>> >>)),
                   DoWait(<<>>) >>]

\* tbraid(throttle=1, timeout=0.05); run({'a': '@b', 'b': '@b'}): a waits
\* for its sibling inside the only slot, b waits for itself
ScSlot ==
    [name |-> "slot", throttle |-> 1, clock |-> "short", reg |-> <<>>,
     script |-> << DoRun(PyDict(<< <<"a", At("b")>>, <<"b", At("b")>> >>)) >>]

\* run({'p': [slow_fn, {'x': 1}]}); reset()
ScReset ==
    [name |-> "reset", throttle |-> DefaultThrottle, clock |-> "long", reg |-> <<>>,
     script |-> << DoRun(PyDict(<< <<"p", PyList(<<PyFn("slow"),
                                        PyDict(<< <<"x", PyInt(1)>> >>)>>)>> >>)),
                   DoReset >>]

\* run({'c': [inc, {'$run': boom}, {'$run': double}]}); wait('c')
ScChainFail ==
    [name |-> "chainfail", throttle |-> DefaultThrottle, clock |-> "long", reg |-> <<>>,
     script |-> << DoRun(PyDict(<< <<"c", PyList(<<PyFn("inc"), RunOf("boom"),
                                                   RunOf("double")>>)>> >>)),
                   DoWait(<<"c">>) >>]

Scenarios ==
    {ScChain, ScChainFn, ScCross, ScRace, ScOverride, ScTimeout, ScFail,
     ScThrottle, ScForeach, ScAsync, ScEarly, ScScalars, ScLoop, ScPartial,
     ScSlot, ScReset, ScChainFail}

----------------------------------------------------------------------------
(* The braid specification.                                                *)

\* the braid after tbraid.__init__, before the script starts
InitBraid ==
    /\ tables = <<[k \in {} |-> PyNone]>>
    /\ curtt = 1
    /\ sems = [r \in {} |-> 0]
    /\ threads = [x \in {"main"} |-> NewThread(<<[k |-> "main", i |-> 1]>>, "live")]
    /\ matches = Builtins \o scen.reg
    /\ akeyid = 0
    /\ raised = <<>>
    /\ probes = [k \in {} |-> <<>>]

\* no tablestack object, no frame, no operation yet
InitObjects ==
    /\ heap = [f \in {} |-> EmptyFrame]
    /\ stk = <<>>
    /\ last = [op |-> "none", nw |-> 0]

Init ==
    /\ scen \in Scenarios
    /\ InitBraid
    /\ InitObjects

Next ==
    \/ \E t \in DOMAIN threads : MainRun(t)
    \/ \E t \in DOMAIN threads : MainWait(t)
    \/ \E t \in DOMAIN threads : MainReset(t)
    \/ \E t \in DOMAIN threads : MainReturn(t)
    \/ \E t \in DOMAIN threads : MainCaught(t)
    \/ \E t \in DOMAIN threads : RunCheck(t)
    \/ \E t \in DOMAIN threads : RunInsert(t)
    \/ \E t \in DOMAIN threads : RunStart(t)
    \/ \E t \in DOMAIN threads : WorkerAcquire(t)
    \/ \E t \in DOMAIN threads : WorkerSetValue(t)
    \/ \E t \in DOMAIN threads : WorkerSetDone(t)
    \/ \E t \in DOMAIN threads : WorkerError(t)
    \/ \E t \in DOMAIN threads : StepNone(t)
    \/ \E t \in DOMAIN threads : StepImmediate(t)
    \/ \E t \in DOMAIN threads : StepReturn(t)
    \/ \E t \in DOMAIN threads : StepObject(t)
    \/ \E t \in DOMAIN threads : ObjectFinally(t)
    \/ \E t \in DOMAIN threads : ObjectReturn(t)
    \/ \E t \in DOMAIN threads : StepList(t)
    \/ \E t \in DOMAIN threads : ListNext(t)
    \/ \E t \in DOMAIN threads : StepWait(t)
    \/ \E t \in DOMAIN threads : HWaitReturn(t)
    \/ \E t \in DOMAIN threads : WaitSnapshot(t)
    \/ \E t \in DOMAIN threads : WaitCheck(t)
    \/ \E t \in DOMAIN threads : WaitTimeout(t)

Spec == Init /\ [][Next]_vars

\* what thread t can do
Step(t) ==
    \/ MainRun(t) \/ MainWait(t) \/ MainReset(t) \/ MainReturn(t)
    \/ MainCaught(t)
    \/ RunCheck(t) \/ RunInsert(t) \/ RunStart(t)
    \/ WorkerAcquire(t) \/ WorkerSetValue(t) \/ WorkerSetDone(t)
    \/ WorkerError(t)
    \/ StepNone(t) \/ StepImmediate(t) \/ StepReturn(t)
    \/ StepObject(t) \/ ObjectFinally(t) \/ ObjectReturn(t)
    \/ StepList(t) \/ ListNext(t) \/ StepWait(t) \/ HWaitReturn(t)
    \/ WaitSnapshot(t) \/ WaitCheck(t) \/ WaitTimeout(t)

\* a started worker thread is scheduled while it has a step to take
WorkerStep == \E t \in DOMAIN threads \ {"main"} : Step(t)

FairSpec == Spec /\ WF_vars(WorkerStep)

----------------------------------------------------------------------------
(* The registry specification: register, _find_matchfunc.                  *)

\* the checks and the nodes the registry is tried on
CustomChecks == {"true", "false", "is_int", "has_llm", "has_run"}

ProbeNodes ==
    {PyInt(1), At("a"), PyFn("ret7"), PyList(<<PyInt(1)>>),
     PyDict(<< <<"x", PyInt(1)>> >>),
     PyDict(<< <<"$wait", PyKeys(<<"a">>)>> >>),
     PyDict(<< <<"$wait", PyKeys(<<"a">>)>>, <<"$run", PyFn("ret7")>> >>),
     PyDict(<< <<"$run", PyFn("ret7")>>, <<"$foreach", PyList(<<>>)>>,
               <<"x", PyInt(1)>> >>),
     PyDict(<< <<"$llm", PyInt(1)>>, <<"$run", PyFn("ret7")>> >>)}

BuiltinFuncs == {Builtins[i].func : i \in 1..Len(Builtins)}

Registered == SelectSeq(matches, LAMBDA e : e.func \notin BuiltinFuncs)

\* a call of register(check, func), func being a handler of its own
MRegister ==
    /\ Len(Registered) < MaxRegister
    /\ \E c \in CustomChecks :
          matches' = Register(matches, c, "custom" \o ToString(Len(matches) + 1))
    /\ last' = [op |-> "register", nw |-> 0]
    /\ UNCHANGED <<scen, akeyid, tables, curtt, heap, sems, threads, raised, probes, stk>>

\* tb._matches = [], as test_tbraid_no_matched_function does
MClear ==
    /\ matches # <<>>
    /\ matches' = <<>>
    /\ last' = [op |-> "clear", nw |-> 0]
    /\ UNCHANGED <<scen, akeyid, tables, curtt, heap, sems, threads, raised, probes, stk>>

\* a call of _find_matchfunc(node)
MFind ==
    /\ \E n \in ProbeNodes :
          last' = [op |-> "find", nw |-> 0, node |-> n,
                   res |-> FindMatchfunc(matches, n)]
    /\ UNCHANGED <<scen, akeyid, tables, curtt, heap, sems, threads, matches, raised,
                   probes, stk>>

InitMatch == scen = ScIdle /\ InitBraid /\ InitObjects

NextMatch == MRegister \/ MClear \/ MFind

SpecMatch == InitMatch /\ [][NextMatch]_vars

----------------------------------------------------------------------------
(* The tablestack specification: tablestack objects over shared dicts.     *)

StackKeys == {"a", "b"}
StackVals == {PyInt(0), PyInt(1)}

FrameName(n) == "f" \o ToString(n)

NumFrames == Cardinality(DOMAIN heap)

\* tablestack() or tablestack(d): a new object over no frame or over a new
\* dict
TNew ==
    /\ Len(stk) < MaxStacks
    /\ \/ /\ stk' = Append(stk, <<>>)
          /\ heap' = heap
       \/ /\ NumFrames < MaxFrames
          /\ stk' = Append(stk, TsAdd(<<>>, FrameName(NumFrames + 1)))
          /\ heap' = Alloc(heap, FrameName(NumFrames + 1), EmptyFrame)
    /\ last' = [op |-> "new", nw |-> last.nw]
    /\ UNCHANGED <<scen, akeyid, tables, curtt, sems, threads, matches, raised, probes>>

\* ts.add(d), d a new dict (a dict is shared through clone)
TAdd ==
    /\ \E i \in 1..Len(stk) :
          /\ NumFrames < MaxFrames
          /\ stk' = [stk EXCEPT ![i] = TsAdd(@, FrameName(NumFrames + 1))]
          /\ heap' = Alloc(heap, FrameName(NumFrames + 1), EmptyFrame)
    /\ last' = [op |-> "add", nw |-> last.nw]
    /\ UNCHANGED <<scen, akeyid, tables, curtt, sems, threads, matches, raised, probes>>

\* ts.clone()
TClone ==
    /\ Len(stk) < MaxStacks
    /\ \E i \in 1..Len(stk) : stk' = Append(stk, TsClone(stk[i]))
    /\ last' = [op |-> "clone", nw |-> last.nw]
    /\ UNCHANGED <<scen, akeyid, tables, curtt, heap, sems, threads, matches, raised,
                   probes>>

\* ts[k] = v; self._stack[-1] raises IndexError on an empty stack
TSetItem ==
    /\ last.nw < MaxWrites
    /\ \E i \in 1..Len(stk), k \in StackKeys, v \in StackVals :
          /\ heap' = IF stk[i] = <<>> THEN heap ELSE TsSet(heap, stk[i], k, v)
          /\ last' = [op |-> "set", nw |-> last.nw + 1, s |-> i, k |-> k,
                       v |-> v, before |-> heap,
                       res |-> IF stk[i] = <<>> THEN Exc("IndexError")
                               ELSE Ok(PyNone)]
    /\ UNCHANGED <<scen, akeyid, tables, curtt, sems, threads, matches, raised, probes,
                   stk>>

\* ts[k]
TGetItem ==
    /\ \E i \in 1..Len(stk), k \in StackKeys :
          last' = [op |-> "get", nw |-> last.nw, s |-> i, k |-> k,
                   res |-> TsGet(heap, stk[i], k)]
    /\ UNCHANGED <<scen, akeyid, tables, curtt, heap, sems, threads, matches, raised,
                   probes, stk>>

\* k in ts
TContains ==
    /\ \E i \in 1..Len(stk), k \in StackKeys :
          last' = [op |-> "in", nw |-> last.nw, s |-> i, k |-> k,
                   res |-> TsContains(heap, stk[i], k)]
    /\ UNCHANGED <<scen, akeyid, tables, curtt, heap, sems, threads, matches, raised,
                   probes, stk>>

NextStack == TNew \/ TAdd \/ TClone \/ TSetItem \/ TGetItem \/ TContains

SpecStack == InitMatch /\ [][NextStack]_vars

----------------------------------------------------------------------------
(* Properties.                                                             *)

\* the table the braid holds
Table == tables[curtt]

Entry(k) == Table[k]

IsDone(k, v) == k \in DOMAIN Table /\ Entry(k).state = "done" /\ Entry(k).value = v

IsError(k) ==
    k \in DOMAIN Table /\ Entry(k).state = "error" /\ Entry(k).value = PyNone

\* the script has been run to its end and no started thread is left
ScriptDone ==
    /\ threads["main"].exc = ""
    /\ Len(threads["main"].stk) = 1
    /\ Top(threads["main"]).i > Len(scen.script)

Quiet == ScriptDone /\ \A t \in DOMAIN threads \ {"main"} : threads[t].st # "live"

\* the workers of run invocation r that are inside `with sem:`
Inside(r) ==
    {t \in DOMAIN threads :
        /\ threads[t].st = "live" /\ threads[t].stk # <<>>
        /\ threads[t].stk[1].k = "tworker"
        /\ threads[t].stk[1].sem = r
        /\ threads[t].stk[1].pc # "acquire"}

\* thread t is at `return self` of a wait
AtWaitReturn(t) ==
    /\ Running(t) /\ threads[t].exc = ""
    /\ Top(threads[t]).k = "wait" /\ Top(threads[t]).pc = "ret"

IsPrefix(p, q) == Len(p) <= Len(q) /\ \A i \in 1..Len(p) : p[i] = q[i]

\* C1: an entry that has left not-started keeps its state for ever: no step
\* changes the state of a key that is done or error (in particular none
\* brings it back to not-started).
C1_StateMonotone ==
    [][\A g \in DOMAIN tables : \A k \in DOMAIN tables[g] :
          tables[g][k].state # "not-started"
              => tables'[g][k].state = tables[g][k].state]_vars

\* C2: a key is inserted at most once: no step replaces the entry of a key
\* that is in the table (the entry keeps the worker it was created with).
C2_InsertOnce ==
    [][\A g \in DOMAIN tables : \A k \in DOMAIN tables[g] :
          tables'[g][k].thread = tables[g][k].thread]_vars

\* C3: when a wait is at its `return self`, every key it waited for is in
\* the table in state done or error.
C3_WaitBarrier ==
    \A t \in DOMAIN threads :
        AtWaitReturn(t) =>
            \A k \in Top(threads[t]).kr :
                k \in DOMAIN Table /\ Entry(k).state \in {"done", "error"}

\* C4: in a chain whose steps succeed, what step i sees in $result is what
\* step i-1 returned (None for the first step), the steps run one after the
\* other, and the chain's value is the last step's: the chain of inc, inc,
\* double sees None, 1, 2 and ends done with 4; [1,2,3] ends done with 3;
\* and every chain in progress has run exactly the steps before its current
\* one, the step frame above it being that of its current item.
C4_ChainLaw ==
    /\ scen.name = "chainfn" /\ "seq" \in DOMAIN probes =>
            IsPrefix(probes["seq"],
                     <<Ok(PyNone), Ok(PyInt(1)), Ok(PyInt(2))>>)
    /\ scen.name = "chainfn" /\ "seq" \in DOMAIN Table =>
            /\ Entry("seq").state # "error"
            /\ Entry("seq").state = "done" => Entry("seq").value = PyInt(4)
            /\ Entry("seq").value \in {PyNone, PyInt(4)}
    /\ scen.name = "chain" /\ "seq" \in DOMAIN Table =>
            /\ Entry("seq").state # "error"
            /\ Entry("seq").state = "done" => Entry("seq").value = PyInt(3)
            /\ Entry("seq").value \in {PyNone, PyInt(3)}
    /\ \A t \in DOMAIN threads : \A j \in 1..Len(threads[t].stk) :
            LET f == threads[t].stk[j] IN
            f.k = "list" /\ j < Len(threads[t].stk) =>
                /\ threads[t].stk[j + 1].k = "step"
                /\ f.x \in 1..Len(f.items)
                /\ threads[t].stk[j + 1].tstack = f.t2
                /\ f.x = 1 /\ threads[t].stk[j + 1].a = f.items[1]
                        => heap[TsTop(f.t2)]["$result"] = PyNone

\* C4 witness: the chain of three host functions has run to its end
C4_Witness ==
    /\ scen.name = "chainfn" /\ Quiet
    /\ IsDone("seq", PyInt(4))
    /\ Len(probes["seq"]) = 3

\* C5 as stated: once wait() has returned, a is done with 7 and b is done
\* with 14.
C5_CrossAsClaimed ==
    scen.name = "cross" /\ ScriptDone /\ raised = <<>> =>
        IsDone("a", PyInt(7)) /\ IsDone("b", PyInt(14))

\* C5, amended: once wait() has returned, a is done with 7 and b is in
\* state error with value None, in every interleaving: the '@a' step returns
\* the chain's $result, which is None, so g multiplies None and raises.
C5_CrossAmended ==
    /\ scen.name = "cross" /\ ScriptDone =>
            /\ raised = <<>>
            /\ IsDone("a", PyInt(7))
            /\ IsError("b")
            /\ probes["b"] = <<Ok(PyNone)>>
    /\ scen.name = "cross" /\ "b" \in DOMAIN probes => IsDone("a", PyInt(7))

C5_Witness ==
    scen.name = "cross" /\ ScriptDone /\ IsError("b") /\ IsDone("a", PyInt(7))

C9_ThrottlePerRun ==
    /\ \A r \in DOMAIN sems :
            /\ Cardinality(Inside(r)) <= sems[r].cap
            /\ Cardinality(Inside(r)) = sems[r].held
    /\ scen.name = "throttle" =>
            \A r \in DOMAIN sems :
                sems[r].cap = IF r = "main.1" THEN 2 ELSE scen.throttle

\* C9 witness: the root invocation's two slots are held and a worker of the
\* nested invocation runs as well: three workers at once under throttle 2
C9_Witness ==
    /\ scen.name = "throttle"
    /\ Cardinality(Inside("main.1")) = 2
    /\ Cardinality(UNION {Inside(r) : r \in DOMAIN sems}) > sems["main.1"].cap

MaxOf(S) == CHOOSE i \in S : \A j \in S : j <= i

\* C6: _find_matchfunc returns the handler of the last registration whose
\* check is truthy on the node, and raises NoMatchedFunctionError exactly
\* when no check is; with the built-ins alone a dict with $foreach goes to
\* foreach, else one with $run to run, else one with $wait to wait, and any
\* other dict to object.
C6_LastRegisteredWins ==
    last.op = "find" =>
        LET T == {i \in 1..Len(matches) : Check(matches[i].check, last.node)}
            n == last.node
        IN /\ T = {} <=> ~last.res.ok
           /\ T = {} => last.res = Exc("NoMatchedFunctionError")
           /\ T # {} => last.res = Ok(matches[MaxOf(T)].func)
           /\ matches = Builtins /\ n.t = "dict" =>
                 last.res.v =
                    IF "$foreach" \in DictKeys(n) THEN "foreach"
                    ELSE IF "$run" \in DictKeys(n) THEN "run"
                    ELSE IF "$wait" \in DictKeys(n) THEN "wait"
                    ELSE "object"

\* C6 witness: a handler registered after the built-ins is chosen for a
\* dict that the built-in run and object checks match as well
C6_Witness ==
    /\ last.op = "find" /\ last.res.ok
    /\ last.res.v \notin BuiltinFuncs
    /\ Len(matches) > Len(Builtins)
    /\ Check("has_run", last.node) /\ Check("is_dict", last.node)

\* C7: ts[k] is the value of k in the topmost frame that holds k, and
\* KeyError when no frame holds it; ts[k] = v sets k in the topmost frame
\* and changes nothing else, in that frame or in any other.
C7_Shadowing ==
    /\ last.op = "get" =>
          LET s == stk[last.s]
              I == {i \in 1..Len(s) : last.k \in DOMAIN heap[s[i]]}
          IN IF I = {} THEN last.res = Exc("KeyError")
             ELSE last.res = Ok(heap[s[MaxOf(I)]][last.k])
    /\ last.op = "set" /\ last.res.ok =>
          LET top == stk[last.s][Len(stk[last.s])] IN
          /\ heap[top][last.k] = last.v
          /\ DOMAIN heap[top] = DOMAIN last.before[top] \cup {last.k}
          /\ \A j \in DOMAIN heap[top] \ {last.k} :
                heap[top][j] = last.before[top][j]
          /\ \A f \in DOMAIN heap \ {top} : heap[f] = last.before[f]

\* C7 witness: a lookup answered by the top frame while a lower frame of
\* the same stack holds another value for the key
C7_Witness ==
    /\ last.op = "get" /\ last.res.ok
    /\ LET s == stk[last.s] IN
          /\ Len(s) >= 2
          /\ last.k \in DOMAIN heap[s[Len(s)]]
          /\ \E i \in 1..(Len(s) - 1) :
                /\ last.k \in DOMAIN heap[s[i]]
                /\ heap[s[i]][last.k] # last.res.v

\* the activation records of the calls in progress, of all threads
StepFrames ==
    UNION {ElemsOf(threads[t].stk) : t \in DOMAIN threads}

\* C11: an entry's value is written exactly when its state is done: in every
\* state an entry that is not done (not-started or error) has value None,
\* so that braid[k] never shows a worker's value before the state is done.
C11_ValueIffDone ==
    \A k \in DOMAIN Table : Entry(k).state # "done" => BraidView[k] = PyNone

\* C12: no key of any result table is a directive key or begins with '$',
\* and no run invocation has such a key among those it is to spawn, also
\* after the renaming of $sub and the expansion of $foreach.
C12_NoDollarKeys ==
    /\ \A g \in DOMAIN tables : \A k \in DOMAIN tables[g] : ~IsDollar(k)
    /\ \A f \in StepFrames :
            f.k = "run" => \A i \in 1..Len(f.items) : ~IsDollar(f.items[i][1])

\* C12 witness: the $foreach program has run to its end: its table holds
\* the parent, the fan-out keys and their children, and the nodes that were
\* run held $foreach, $sub, $throttle and $param
C12_Witness ==
    /\ scen.name = "foreach" /\ Quiet
    /\ Cardinality(DOMAIN Table) = 1 + 2 * MaxItems

\* C13: with the built-in handlers alone, no invocation of the step
\* processor makes more than 3 $replace rewrites, and every worker comes to
\* its end.
C13_ReplaceBounded ==
    /\ [](scen.reg = <<>> => \A f \in StepFrames : f.k = "step" => f.n <= 3)
    /\ scen.reg = <<>> =>
            <>(\A t \in DOMAIN threads \ {"main"} : threads[t].st # "live")

\* C13 witness: a step invocation that has made a rewrite ('@x' to a $wait
\* directive) and is inside the handler of the rewritten node
C13_Witness ==
    \E f \in StepFrames :
        /\ f.k = "step" /\ f.n = 1 /\ f.pc = "called"
        /\ DHas(f.a, "$wait")

\* the keys of shape *foreach:*:i:body for the i-th item (i from 0): the
\* parent prefix or none, any id _autokey can have given, the item's index
BodyKeys(i) ==
    {pre \o "foreach:_" \o ToString(id) \o ":" \o ZeroPad(i, Digits(MaxItems))
         \o ":body" : pre \in {"", "all:"}, id \in 1..(MaxItems + 1)}

\* the fan-out keys of the $foreach under parent key all
FanOutKeys ==
    {"all:" \o Autokey("foreach:", 0) \o ":" \o ZeroPad(i - 1, Digits(MaxItems)) :
        i \in 1..MaxItems}

\* the node each fan-out worker of the $foreach program is started with has
\* no $foreach and has $param bound to the item of the worker's index
FanOutClones ==
    \A f \in StepFrames :
        f.k = "tworker" /\ f.key \in FanOutKeys =>
            /\ ~DHas(f.a, "$foreach")
            /\ \E i \in 1..MaxItems :
                  /\ f.key = "all:" \o Autokey("foreach:", 0) \o ":"
                                \o ZeroPad(i - 1, Digits(MaxItems))
                  /\ DHas(f.a, "$param")
                  /\ DictGet(f.a, "$param") = ForeachItems[i]

\* the key the child body of item i (from 0) is spawned under: $sub renames
\* body to all:body before the fan-out, and the fan-out worker's $sub
\* prefixes that with the fan-out key
ChildKey(i) ==
    "all:" \o Autokey("foreach:", 0) \o ":" \o ZeroPad(i, Digits(MaxItems))
        \o ":all:body"

\* C14, amended: once the $foreach program has run to its end, the table
\* holds the parent, one fan-out key all:foreach:_1:i per item and one child
\* key all:foreach:_1:i:all:body per item, done with the value of the
\* item's binding, and nothing else (no key of shape *foreach:*:i:body);
\* each fan-out worker's node has $param bound to its item and no $foreach.
C14_ForeachAmended ==
    /\ scen.name = "foreach" /\ Quiet =>
            /\ FanOutKeys \subseteq DOMAIN Table
            /\ \A i \in 1..MaxItems :
                    /\ IsDone(ChildKey(i - 1), PyStr(<<Letters[i]>>))
                    /\ BodyKeys(i - 1) \cap DOMAIN Table = {}
            /\ Cardinality(DOMAIN Table) = 1 + 2 * MaxItems
    /\ scen.name = "foreach" => FanOutClones

\* C14 witness: the $foreach program has run to its end and the last
\* item's child is done with the last item's binding
C14_Witness ==
    /\ scen.name = "foreach" /\ Quiet
    /\ IsDone(ChildKey(MaxItems - 1), PyStr(<<Letters[MaxItems]>>))

\* C14 as stated: once the $foreach program has run to its end, the table
\* holds one fan-out key per item under the parent key, and for each item i
\* exactly one key of shape *foreach:*:i:body, done with the value of the
\* item's binding ('a', 'b', ...); each fan-out worker's node has $param
\* bound to its item and no $foreach.
C14_ForeachAsClaimed ==
    /\ scen.name = "foreach" /\ Quiet =>
            /\ FanOutKeys \subseteq DOMAIN Table
            /\ \A i \in 1..MaxItems :
                    /\ Cardinality(BodyKeys(i - 1) \cap DOMAIN Table) = 1
                    /\ \A k \in BodyKeys(i - 1) \cap DOMAIN Table :
                            IsDone(k, PyStr(<<Letters[i]>>))
            /\ Cardinality(DOMAIN Table) = 1 + 2 * MaxItems
    /\ scen.name = "foreach" => FanOutClones

\* C15: `k in ts` is true exactly when some frame of the stack holds k,
\* whatever value it holds there.
C15_ContainsAnyValue ==
    last.op = "in" =>
        (last.res <=> \E i \in 1..Len(stk[last.s]) :
                          last.k \in DOMAIN heap[stk[last.s][i]])

\* C16: a scalar node is returned verbatim: in the program of the scalars
\* 0, '' and None, once all has run each key is done with its node as value.
C16_ScalarVerbatim ==
    scen.name = "scalars" /\ Quiet =>
        /\ IsDone("z", PyInt(0))
        /\ IsDone("e", PyStr(<<>>))
        /\ IsDone("n", PyNone)

\* the node the script's first run gives for key k
RootNode(k) == DictGet(scen.script[1].ob, k)

\* the keys of the first run whose node goes to _handle_base_object as it
\* is, and for which the handler waits
Branches ==
    IF scen.script = <<>> THEN {}
    ELSE {k \in DictKeys(scen.script[1].ob) \ DollarKeys :
            /\ RootNode(k).t = "dict"
            /\ DictKeys(RootNode(k)) \cap {"$foreach", "$run", "$wait", "$sub"} = {}
            /\ ~Async(RootNode(k))}

\* C17: a branch evaluated without a truthy $async is done only when every
\* one of its non-directive child keys is done or error.
C17_BranchWaitsChildren ==
    \A p \in Branches \cap DOMAIN Table :
        Entry(p).state = "done" =>
            \A c \in ElemsOf(ObjectKeys(RootNode(p))) :
                c \in DOMAIN Table /\ Entry(c).state \in {"done", "error"}

\* C18: when a wait called with no keys is at its `return self`, every key
\* that is in the result table is done or error.
C18_WaitAllCoversTable ==
    \A t \in DOMAIN threads :
        AtWaitReturn(t) /\ Top(threads[t]).r = <<>> =>
            \A k \in DOMAIN Table : Entry(k).state \in {"done", "error"}

\* C19: the replace loop gives up: with the registered handler that answers
\* every dispatch of an int with {'$replace': a}, the worker of key k, once
\* started, brings its entry to done or error.
C19_ReplaceGivesUp ==
    (/\ scen.name = "loop" /\ "k" \in DOMAIN Table
     /\ threads[Entry("k").thread].st = "live")
        ~> ("k" \in DOMAIN Table /\ Entry("k").state \in {"done", "error"})

\* C20: a wait ends in one of two ways: it returns, or it raises
\* WaitTimeoutError; no step of a thread inside wait raises anything else
\* (a listed key that is not in the table yet is polled for).
C20_WaitOutcomes ==
    [][\A t \in DOMAIN threads :
          /\ Running(t) /\ threads[t].exc = ""
          /\ Top(threads[t]).k = "wait"
          /\ threads'[t].exc # ""
          => threads'[t].exc = "WaitTimeoutError"]_vars

----------------------------------------------------------------------------
\* the run invocations that raise KeyOverrideAttemptError in this step
Overriding(t) ==
    /\ Running(t) /\ threads[t].exc = ""
    /\ Top(threads[t]).k = "run"
    /\ threads'[t].exc = "KeyOverrideAttemptError"

\* C21: when run raises KeyOverrideAttempt the invocation has inserted no
\* entry (the keys it added are none, the table is as it was before the
\* call), so it leaves no entry in state not-started whose worker it never
\* starts.
C21_OverrideInsertsNothing ==
    [][\A t \in DOMAIN threads :
          Overriding(t) => Top(threads[t]).added = <<>>]_vars

----------------------------------------------------------------------------
\* the caller of the braid goes on with its script, and every started
\* worker is scheduled
MainStep == Step("main")

FairAll == FairSpec /\ WF_vars(MainStep)

\* the entries, of every table the braid has had, that are not done or error
Unsettled ==
    {<<g, k>> \in UNION {{g} \X DOMAIN tables[g] : g \in DOMAIN tables} :
        tables[g][k].state \notin {"done", "error"}}

\* C22: with a throttle of at least 1, a finite timeout and host functions
\* that return, under fair scheduling every entry a run inserted eventually
\* reaches done or error: time and again no entry is left unsettled.
C22_EveryEntrySettles == []<>(Unsettled = {})

----------------------------------------------------------------------------
\* this step is taken by thread t
By(t) == threads'[t].stk # threads[t].stk

\* the table of the run invocation that started worker t
Born(t) == threads[t].stk[1].tt

\* C23: after reset() the table of the braid is empty, and a worker that
\* was started before the reset never inserts a key into the new table
\* and never changes an entry of it.
C23_ResetIsolates ==
    [][/\ curtt' # curtt => DOMAIN tables'[curtt'] = {}
       /\ \A t \in DOMAIN threads \ {"main"} : \A g \in DOMAIN tables :
            (threads[t].stk # <<>> /\ Born(t) < g /\ By(t))
                => tables'[g] = tables[g]]_vars

----------------------------------------------------------------------------
\* worker t was started on a chain: tworker(a, tstack, key) with a list a
ChainWorker(t) ==
    /\ t # "main" /\ threads[t].stk # <<>>
    /\ threads[t].stk[1].k = "tworker" /\ threads[t].stk[1].a.t = "list"

\* C24: if a step of a chain raises, the exception is caught neither by
\* the chain handler nor by the step processor; once it reaches the worker
\* that owns the chain the worker executes nothing more (no later step of
\* the chain is run) and ends with its key in state error and value None.
C24_ChainStopsAtRaise ==
    [][\A t \in DOMAIN threads : ChainWorker(t) =>
          LET w == threads[t].stk[1] IN
          /\ threads'[t].exc # "" =>
                Top(threads'[t]).k \notin {"list", "step"}
          /\ (threads[t].exc # "" /\ Top(threads[t]).k = "tworker") =>
                \/ threads'[t] = threads[t]
                \/ /\ threads'[t].st = "exit"
                   /\ tables'[w.tt][w.key].state = "error"
                   /\ tables'[w.tt][w.key].value = PyNone
                   /\ probes' = probes]_vars

\* the chain of key c ended in error at its second step: two steps ran,
\* the value of the first is not published
C24_Witness ==
    /\ scen.name = "chainfail"
    /\ "c" \in DOMAIN Table
    /\ Table["c"].state = "error" /\ Table["c"].value = PyNone
    /\ "c" \in DOMAIN probes /\ Len(probes["c"]) = 2
    /\ probes["c"][2] = Ok(PyInt(1))

====
